---- MODULE Spec2Model ----
(***************************************************************************)
(* ascii_tree: the directory walker (Tree.populate), the prefix pass       *)
(* (Tree.prefix_nodes) and the line-emission pass (Tree.__str__) of        *)
(* src/ascii_tree/tree_gen.py, with the symbol sets of config.py and the   *)
(* argument handling of cli.py.                                            *)
(*                                                                         *)
(* Strings are sequences of code points.  A path is the sequence of the    *)
(* names below the anchor "/": <<>> is "/", <<2>> is "/b".  A file or      *)
(* directory name is a small integer n standing for the string NameStr(n). *)
(***************************************************************************)
EXTENDS Integers, Sequences, FiniteSets, TLC

\* The walk lists at most MaxEntries directory entries (files and
\* directories together) over the whole tree.
MaxEntries == 5

\* Entry names are 1..MaxName.
MaxName == 2

\* tree_gen.py:144
SYMBOL_LEN == 4

Names == 1 .. MaxName

\* The string a name stands for: 0 is "" (the name of "/"), 1 is ".a" (a
\* hidden name), 2 is "b", 3 is "c", ...
NameStr(n) ==
    IF n = 0 THEN << >> ELSE IF n = 1 THEN <<46, 97>> ELSE <<96 + n>>

\* Python's str "<": lexicographic by code point.
RECURSIVE StrLess(_, _)
StrLess(a, b) ==
    IF b = << >> THEN FALSE
    ELSE IF a = << >> THEN TRUE
    ELSE IF a[1] # b[1] THEN a[1] < b[1]
    ELSE StrLess(Tail(a), Tail(b))

\* sorted(list[str]): insertion into an ascending list.
RECURSIVE InsertSorted(_, _)
InsertSorted(n, s) ==
    IF s = << >> THEN <<n>>
    ELSE IF StrLess(NameStr(n), NameStr(s[1])) THEN <<n>> \o s
    ELSE <<s[1]>> \o InsertSorted(n, Tail(s))

RECURSIVE Sorted(_)
Sorted(s) ==
    IF s = << >> THEN << >> ELSE InsertSorted(s[1], Sorted(Tail(s)))

\* str.startswith / str.endswith
StartsWith(s, m) ==
    Len(s) >= Len(m) /\ SubSeq(s, 1, Len(m)) = m

EndsWith(s, m) ==
    Len(s) >= Len(m) /\ SubSeq(s, Len(s) - Len(m) + 1, Len(s)) = m

\* s[:-k]
DropLast(s, k) == SubSeq(s, 1, Len(s) - k)

(***************************************************************************)
(* Symbol sets.                                                            *)
(***************************************************************************)
\* tree_gen.py: class Symbol
Symbol ==
    [INDENT   |-> <<32, 32, 32, 32>>,
     CONTINUE |-> <<9474, 32, 32, 32>>,
     BRANCH   |-> <<9500, 9472, 9472, 32>>,
     FINAL    |-> <<9492, 9472, 9472, 32>>,
     DIR      |-> <<47>>]

\* config.py: class UnicodeSymbols
UnicodeSymbols ==
    [INDENT   |-> <<32, 32, 32, 32>>,
     CONTINUE |-> <<9474, 32, 32, 32>>,
     BRANCH   |-> <<9500, 9472, 9472, 32>>,
     FINAL    |-> <<9492, 9472, 9472, 32>>,
     DIR      |-> <<47>>]

\* config.py: class AsciiSymbols
AsciiSymbols ==
    [INDENT   |-> <<32, 32, 32, 32>>,
     CONTINUE |-> <<124, 32, 32, 32>>,
     BRANCH   |-> <<43, 45, 45, 32>>,
     FINAL    |-> <<43, 45, 45, 32>>,
     DIR      |-> <<47>>]

\* config.py: TreeGenConfig.symbols
symbols(use_ascii) == IF use_ascii THEN AsciiSymbols ELSE UnicodeSymbols

(***************************************************************************)
(* Paths (pathlib.Path of an absolute path).                               *)
(***************************************************************************)
\* Path.parts: the anchor "/" and the names below it.
Parts(p) == Len(p) + 1

\* Path.parent: the parent of "/" is "/" itself.
Parent(p) == IF p = << >> THEN << >> ELSE SubSeq(p, 1, Len(p) - 1)

\* Path.name: "" for "/".
PathName(p) == IF p = << >> THEN 0 ELSE p[Len(p)]

\* The root directories a run is started on: "/" and "/b".
Tops == {<< >>, <<2>>}

(***************************************************************************)
(* Filters (tree_gen.py: class Filters).                                   *)
(***************************************************************************)
\* Filters.unix_hidden = '.*'
unix_hidden == <<46, 42>>

\* PatternInput: None, a single string, or a list of strings.
PNone == [kind |-> "none", val |-> << >>]
PStr(p) == [kind |-> "str", val |-> <<p>>]
PList(l) == [kind |-> "list", val |-> l]

\* list(set(patterns)): each pattern once (the order of a set is arbitrary
\* and does not change what the combined regex matches).
RECURSIVE Dedup(_)
Dedup(l) ==
    IF l = << >> THEN << >>
    ELSE LET rest == Dedup(Tail(l))
         IN IF \E k \in 1 .. Len(rest) : rest[k] = l[1]
            THEN rest ELSE <<l[1]>> \o rest

\* Filters._sanitize_patterns
_sanitize_patterns(patterns) ==
    IF patterns.kind = "none" THEN << >>
    ELSE IF patterns.kind = "str" THEN patterns.val
    ELSE Dedup(patterns.val)

\* Filters.__init__ (tree_gen.py)
Filters(exclude_hidden_dirs, exclude_hidden_files, include_dirs, include_files, exclude_dirs, exclude_files) ==
    LET xd == _sanitize_patterns(exclude_dirs)
        xf == _sanitize_patterns(exclude_files)
    IN [_include_dirs  |-> _sanitize_patterns(include_dirs),
        _include_files |-> _sanitize_patterns(include_files),
        _exclude_dirs  |->
            IF exclude_hidden_dirs
               /\ ~ \E k \in 1 .. Len(xd) : xd[k] = unix_hidden
            THEN Append(xd, unix_hidden) ELSE xd,
        _exclude_files |->
            IF exclude_hidden_files
               /\ ~ \E k \in 1 .. Len(xf) : xf[k] = unix_hidden
            THEN Append(xf, unix_hidden) ELSE xf]

\* filters.py: Filters.append_pattern.  For a list, list.append(item)
\* returns None.
append_pattern(pattern, item) ==
    IF pattern.kind = "none" THEN PStr(item)
    ELSE IF pattern.kind = "str" THEN PList(<<pattern.val[1], item>>)
    ELSE PNone

\* filters.py: Filters.__init__
filters_Filters(show_hidden_files, show_hidden_dirs, include_files, exclude_files, include_dirs, exclude_dirs) ==
    [_include_files |-> _sanitize_patterns(include_files),
     _exclude_files |-> _sanitize_patterns(
         IF ~ show_hidden_files THEN append_pattern(exclude_files, unix_hidden)
         ELSE exclude_files),
     _include_dirs  |-> _sanitize_patterns(include_dirs),
     _exclude_dirs  |-> _sanitize_patterns(
         IF ~ show_hidden_dirs THEN append_pattern(exclude_dirs, unix_hidden)
         ELSE exclude_dirs)]

\* fnmatch.translate(pattern) matched with re.match: "*" is any run of
\* characters, "?" any one character, the whole name must match.
RECURSIVE FnMatch(_, _)
FnMatch(pat, s) ==
    IF pat = << >> THEN s = << >>
    ELSE IF pat[1] = 42
         THEN FnMatch(Tail(pat), s)
              \/ (s # << >> /\ FnMatch(pat, Tail(s)))
    ELSE IF pat[1] = 63
         THEN s # << >> /\ FnMatch(Tail(pat), Tail(s))
    ELSE s # << >> /\ s[1] = pat[1] /\ FnMatch(Tail(pat), Tail(s))

\* Filters._combine_patterns: None for no pattern, else the alternation.
_combine_patterns(patterns) ==
    [none |-> patterns = << >>, alts |-> patterns]

\* re.Pattern.match(name) of a combined pattern
ReMatch(re, n) ==
    \E k \in 1 .. Len(re.alts) : FnMatch(re.alts[k], NameStr(n))

\* do_filter without the test of the exclude pattern.
do_filter_include_only(items, include_re, exclude_re) ==
    LET keep(n) == include_re.none \/ ReMatch(include_re, n)
    IN SelectSeq(items, keep)

\* Tree.do_filter
do_filter(items, include_re, exclude_re) ==
    LET keep(n) == (include_re.none \/ ReMatch(include_re, n))
                   /\ (exclude_re.none \/ ~ ReMatch(exclude_re, n))
    IN SelectSeq(items, keep)

\* Tree.filter_files
filter_files(flt, files) ==
    Sorted(do_filter(files, _combine_patterns(flt._include_files),
                     _combine_patterns(flt._exclude_files)))

\* filter_dirs without the sort: the order of scandir is kept.
filter_dirs_unsorted(flt, directories) ==
    do_filter(directories, _combine_patterns(flt._include_dirs),
              _combine_patterns(flt._exclude_dirs))

\* Tree.filter_dirs
filter_dirs(flt, directories) ==
    Sorted(do_filter(directories, _combine_patterns(flt._include_dirs),
                     _combine_patterns(flt._exclude_dirs)))

(***************************************************************************)
(* Prefix rewriting (tree_gen.py: module-level functions).  S is the       *)
(* symbol set in use; tree_gen.py itself uses Symbol.                      *)
(***************************************************************************)
\* replace_trailing_symbol
replace_trailing_symbol(prefix, new_symbol, match_symbol) ==
    IF EndsWith(prefix, match_symbol)
    THEN DropLast(prefix, SYMBOL_LEN) \o new_symbol
    ELSE prefix

\* replace_leading_symbol: tests the start of the prefix, rewrites its end.
replace_leading_symbol(prefix, new_symbol, match_symbol) ==
    IF StartsWith(prefix, match_symbol)
    THEN DropLast(prefix, SYMBOL_LEN) \o new_symbol
    ELSE prefix

\* transform_trailing_prefix
transform_trailing_prefix(S, prefix) ==
    replace_trailing_symbol(
        replace_trailing_symbol(prefix, S.CONTINUE, S.BRANCH),
        S.INDENT, S.FINAL)

\* transform_prefix with the symbols of the leading rewrite exchanged: a
\* prefix that starts with CONTINUE is rewritten with BRANCH.
transform_prefix_leading_branch(S, parent) ==
    LET new_prefix ==
            replace_leading_symbol(
                transform_trailing_prefix(S, parent.prefix),
                S.BRANCH, S.CONTINUE)
        parent_has_siblings == parent.dirs # << >> \/ parent.files # << >>
    IN IF parent_has_siblings
       THEN new_prefix \o S.BRANCH
       ELSE new_prefix \o S.FINAL

\* transform_prefix
transform_prefix(S, parent) ==
    LET new_prefix ==
            replace_leading_symbol(
                transform_trailing_prefix(S, parent.prefix),
                S.CONTINUE, S.BRANCH)
        parent_has_siblings == parent.dirs # << >> \/ parent.files # << >>
    IN IF parent_has_siblings
       THEN new_prefix \o S.BRANCH
       ELSE new_prefix \o S.FINAL

(***************************************************************************)
(* Nodes and lines.                                                        *)
(***************************************************************************)
\* @dataclass Node, with __post_init__
Node(dir_path, dirs, files, depth) ==
    [dir_path |-> dir_path, dirs |-> dirs, files |-> files,
     depth |-> depth, prefix |-> << >>, name |-> PathName(dir_path)]

\* Tree.nodes is a dict in insertion order: the index of a key, 0 if absent.
Lookup(ns, p) ==
    IF \E k \in 1 .. Len(ns) : ns[k].dir_path = p
    THEN CHOOSE k \in 1 .. Len(ns) : ns[k].dir_path = p
    ELSE 0

\* list.remove(x): the first occurrence; ValueError (here: unchanged) if absent.
Has(l, x) == \E k \in 1 .. Len(l) : l[k] = x

ListRemove(l, x) ==
    IF Has(l, x)
    THEN LET k == CHOOSE j \in 1 .. Len(l) :
                      l[j] = x /\ \A m \in 1 .. j - 1 : l[m] # x
         IN SubSeq(l, 1, k - 1) \o SubSeq(l, k + 1, Len(l))
    ELSE l

\* One output line: its text, and (for stating properties only) the
\* directory it belongs to and the file it names (0 for a directory line).
DirLine(S, node) ==
    [text  |-> node.prefix \o NameStr(node.name) \o S.DIR,
     owner |-> node.dir_path,
     file  |-> 0]

FileLine(S, node, file_prefix, connector, file) ==
    [text  |-> file_prefix \o connector \o NameStr(file),
     owner |-> node.dir_path,
     file  |-> file]

\* append_file_lines without the loop over node.files[:-1]: only the last
\* file gets a line.
append_file_lines_last_only(S, file_lines, node) ==
    LET file_prefix == transform_trailing_prefix(S, node.prefix)
        n == Len(node.files)
    IN IF n = 0
       THEN [exit |-> TRUE, lines |-> file_lines]
       ELSE [exit  |-> FALSE,
             lines |-> Append(file_lines,
                 FileLine(S, node, file_prefix, S.FINAL, node.files[n]))]

\* append_file_lines: exit is logger.fatal and sys.exit(1) on an empty
\* files list (node.files[-1] raises IndexError).
append_file_lines(S, file_lines, node) ==
    LET file_prefix == transform_trailing_prefix(S, node.prefix)
        n == Len(node.files)
    IN IF n = 0
       THEN [exit |-> TRUE, lines |-> file_lines]
       ELSE [exit  |-> FALSE,
             lines |-> file_lines
                 \o [k \in 1 .. n - 1 |->
                        FileLine(S, node, file_prefix, S.BRANCH, node.files[k])]
                 \o <<FileLine(S, node, file_prefix, S.FINAL, node.files[n])>>]

\* The flush loop with ">" for ">=": a pending sibling is not flushed.
RECURSIVE FlushDeeperStrict(_, _, _, _, _)
FlushDeeperStrict(S, ns, stk, out, depth) ==
    IF stk # << >> /\ ns[stk[Len(stk)]].depth > depth
    THEN LET r == append_file_lines(S, out, ns[stk[Len(stk)]])
         IN IF r.exit
            THEN [exit |-> TRUE, stack |-> DropLast(stk, 1), out |-> out,
                  at |-> stk[Len(stk)]]
            ELSE FlushDeeperStrict(S, ns, DropLast(stk, 1), r.lines, depth)
    ELSE [exit |-> FALSE, stack |-> stk, out |-> out, at |-> 0]

\* Tree.__str__: "while stack and stack[-1].depth >= node.depth: ..."
\* The stack holds references to Node objects: indices into ns.
RECURSIVE FlushDeeper(_, _, _, _, _)
FlushDeeper(S, ns, stk, out, depth) ==
    IF stk # << >> /\ ns[stk[Len(stk)]].depth >= depth
    THEN LET r == append_file_lines(S, out, ns[stk[Len(stk)]])
         IN IF r.exit
            THEN [exit |-> TRUE, stack |-> DropLast(stk, 1), out |-> out,
                  at |-> stk[Len(stk)]]
            ELSE FlushDeeper(S, ns, DropLast(stk, 1), r.lines, depth)
    ELSE [exit |-> FALSE, stack |-> stk, out |-> out, at |-> 0]

\* Tree.__str__: "while stack: ..."
RECURSIVE FlushAll(_, _, _, _)
FlushAll(S, ns, stk, out) ==
    IF stk # << >>
    THEN LET r == append_file_lines(S, out, ns[stk[Len(stk)]])
         IN IF r.exit
            THEN [exit |-> TRUE, stack |-> DropLast(stk, 1), out |-> out,
                  at |-> stk[Len(stk)]]
            ELSE FlushAll(S, ns, DropLast(stk, 1), r.lines)
    ELSE [exit |-> FALSE, stack |-> stk, out |-> out, at |-> 0]

\* '\n'.join(output_strings)
RECURSIVE Join(_)
Join(ls) ==
    IF ls = << >> THEN << >>
    ELSE IF Len(ls) = 1 THEN ls[1].text
    ELSE ls[1].text \o <<10>> \o Join(Tail(ls))

(***************************************************************************)
(* The program state.                                                      *)
(***************************************************************************)
VARIABLES
    pc,              \* where the program is: "cli", "populate", "prefix",
                     \* "str", "main_done", "done", "raised", "exit"
    args,            \* the parsed command line (argparse.Namespace)
    config,          \* TreeGenConfig: max_depth, depth (0: not set)
    top,             \* Tree.top
    filters,         \* Tree.filters
    fs,              \* the directories listed so far: path -> listing
    walk,            \* os.walk's stack of directories still to visit
    nodes,           \* Tree.nodes, in insertion order
    tree_no,         \* 1: the Tree of main; 2: a second Tree of the same input
    i,               \* the index of the loops over self.nodes
    stack,           \* __str__: directories with pending files
    output_strings,  \* __str__: the lines so far
    results,         \* the value of each completed str(tree)
    log,             \* the logger's records
    raised           \* the exception that ended the run

vars ==
    <<pc, args, config, top, filters, fs, walk, nodes, tree_no, i, stack,
      output_strings, results, log, raised>>

NoException == [exc |-> "", path |-> << >>]

\* The command lines a run may be given: the root directory, -a, -L, -hf,
\* -hd and the pattern lists of -if, -xf, -id, -xd (default []).
\* A max_depth of 0 stands for no -L (None).
ArgsRender ==
    [all : {TRUE}, max_depth : {0}, root_dir : Tops,
     hidden_files : {FALSE}, hidden_dirs : {FALSE},
     include_files : {<< >>}, exclude_files : {<< >>},
     include_dirs : {<< >>}, exclude_dirs : {<< >>}]

ArgsDepth ==
    [all : {TRUE}, max_depth : {1}, root_dir : Tops,
     hidden_files : {FALSE}, hidden_dirs : {FALSE},
     include_files : {<< >>}, exclude_files : {<< >>},
     include_dirs : {<< >>}, exclude_dirs : {<< >>}]

\* Runs without -a: hidden files are left out, hidden directories are shown
\* (-hd), and directories are chosen with -id '?' and -xd 'b'.
ArgsFilter ==
    [all : {FALSE}, max_depth : {0}, root_dir : {<<2>>},
     hidden_files : {FALSE}, hidden_dirs : {TRUE},
     include_files : {<< >>}, exclude_files : {<< >>},
     include_dirs : {<< >>, <<<<63>>>>},
     exclude_dirs : {<< >>, <<<<98>>>>}]

InitWith(argset) ==
    /\ pc = "cli"
    /\ args \in argset
    /\ config = [max_depth |-> -1, depth |-> 0]
    /\ top = << >>
    /\ filters = Filters(TRUE, TRUE, PNone, PNone, PNone, PNone)
    /\ fs = << >>
    /\ walk = << >>
    /\ nodes = << >>
    /\ tree_no = 1
    /\ i = 1
    /\ stack = << >>
    /\ output_strings = << >>
    /\ results = << >>
    /\ log = {}
    /\ raised = NoException

Init == InitWith(ArgsRender)

\* cli.config_from_args, then Tree(config.root_dir, config.filters):
\* Tree.__init__ up to the call of populate.
\*   args.all: the four pattern lists are emptied; otherwise '.*' is
\*   appended to an exclude list unless -hf / -hd is given.  The lists are
\*   then assigned through the setters of config.filters, each of which
\*   stores _sanitize_patterns(list).
\*   "if args.max_depth: config.depth = args.max_depth"
ConfigFromArgs ==
    /\ pc = "cli"
    /\ config' = [config EXCEPT !.depth =
                      IF args.max_depth # 0 THEN args.max_depth ELSE @]
    /\ top' = args.root_dir
    /\ filters' =
          IF args.all
          THEN [_include_dirs  |-> _sanitize_patterns(PList(<< >>)),
                _include_files |-> _sanitize_patterns(PList(<< >>)),
                _exclude_dirs  |-> _sanitize_patterns(PList(<< >>)),
                _exclude_files |-> _sanitize_patterns(PList(<< >>))]
          ELSE [_include_dirs  |-> _sanitize_patterns(PList(args.include_dirs)),
                _include_files |-> _sanitize_patterns(PList(args.include_files)),
                _exclude_dirs  |-> _sanitize_patterns(PList(
                    IF args.hidden_dirs THEN args.exclude_dirs
                    ELSE Append(args.exclude_dirs, unix_hidden))),
                _exclude_files |-> _sanitize_patterns(PList(
                    IF args.hidden_files THEN args.exclude_files
                    ELSE Append(args.exclude_files, unix_hidden)))]
    /\ walk' = <<args.root_dir>>
    /\ pc' = "populate"
    /\ UNCHANGED <<args, fs, nodes, tree_no, i, stack, output_strings,
                   results, log, raised>>

(***************************************************************************)
(* Tree.populate: one iteration of "for root, dirs, files in os.walk".     *)
(***************************************************************************)
\* The number of entries listed so far.
Entries(f) ==
    Cardinality(UNION {({p} \X {0} \X f[p].dirs) \cup ({p} \X {1} \X f[p].files)
                       : p \in DOMAIN f})

\* The orders in which scandir may list a set of names.
Orders(set) ==
    {s \in [1 .. Cardinality(set) -> set] :
        \A a, b \in 1 .. Cardinality(set) : a # b => s[a] # s[b]}

\* The listings a directory not seen before may have: directories named
\* 1..d and files named 1..f, within the budget of entries.
Listings(f) ==
    {l \in [readable : {TRUE},
            dirs : {1 .. d : d \in 0 .. MaxName},
            files : {1 .. d : d \in 0 .. MaxName}] :
        Entries(f) + Cardinality(l.dirs) + Cardinality(l.files) <= MaxEntries}

Unreadable == [readable |-> FALSE, dirs |-> {}, files |-> {}]

\* os.walk visits the kept subdirectories in list order, each with its whole
\* subtree before the next: their paths go on the stack in reverse.
RECURSIVE PushDirs(_, _, _)
PushDirs(w, directory, dirs) ==
    IF dirs = << >> THEN w
    ELSE Append(PushDirs(w, directory, Tail(dirs)), directory \o <<dirs[1]>>)

\* The body of the loop of Tree.populate for the directory os.walk yields.
PopulateNode(ns, flt, tp, directory, dirs, files) ==
    Append(ns, Node(directory, filter_dirs(flt, dirs), filter_files(flt, files),
                    Parts(directory) - Parts(tp)))

AfterWalk(w) ==
    /\ walk' = w
    /\ pc' = IF w = << >> THEN "prefix" ELSE "populate"
    /\ i' = 1

PopulateStep ==
    /\ pc = "populate"
    /\ walk # << >>
    /\ LET directory == walk[Len(walk)]
       IN \E l \in (IF directory \in DOMAIN fs THEN {fs[directory]}
                    ELSE Listings(fs)) :
             /\ l.readable
             /\ fs' = (directory :> l) @@ fs
             /\ \E dirs \in Orders(l.dirs), files \in Orders(l.files) :
                   /\ nodes' = PopulateNode(nodes, filters, top, directory,
                                            dirs, files)
                   /\ AfterWalk(PushDirs(DropLast(walk, 1), directory,
                                         nodes'[Len(nodes')].dirs))
    /\ UNCHANGED <<args, config, top, filters, tree_no, stack,
                   output_strings, results, log, raised>>

\* os.walk with onerror=None: a subdirectory that cannot be listed is
\* skipped without a word; its name stays in the parent's dirs.
WalkError ==
    /\ pc = "populate"
    /\ walk # << >>
    /\ LET directory == walk[Len(walk)]
       IN /\ directory # top
          /\ directory \in DOMAIN fs => ~ fs[directory].readable
          /\ fs' = (directory :> Unreadable) @@ fs
          /\ AfterWalk(DropLast(walk, 1))
    /\ UNCHANGED <<args, config, top, filters, nodes, tree_no, stack,
                   output_strings, results, log, raised>>

(***************************************************************************)
(* Tree.prefix_nodes: one iteration of "for dir_path, node in              *)
(* self.nodes.items()".                                                    *)
(***************************************************************************)
\* The iteration with "continue" for every record whose parent is missing.
PrefixNodeSkipOrphan(S, ns, tp, k) ==
    LET node == ns[k]
        pk == Lookup(ns, Parent(node.dir_path))
    IN IF pk = 0
       THEN [nodes |-> ns, log |-> {}, raised |-> NoException]
       ELSE LET removed == [ns EXCEPT ![pk].dirs = ListRemove(@, node.name)]
            IN [nodes  |-> [removed EXCEPT
                               ![k].prefix = transform_prefix(S, removed[pk])],
                log    |-> IF Has(ns[pk].dirs, node.name) THEN {}
                           ELSE {<<"WARNING", node.dir_path>>},
                raised |-> NoException]

\* The iteration with the ValueError of list.remove not caught: a name
\* missing from the parent's dirs ends the pass.
PrefixNodeRaiseOnMissing(S, ns, tp, k) ==
    LET node == ns[k]
        pk == Lookup(ns, Parent(node.dir_path))
    IN IF pk = 0
       THEN IF node.dir_path = tp
            THEN [nodes |-> ns, log |-> {}, raised |-> NoException]
            ELSE [nodes  |-> ns,
                  log    |-> {<<"ERROR", node.dir_path>>},
                  raised |-> [exc |-> "ValueError", path |-> node.dir_path]]
       ELSE IF ~ Has(ns[pk].dirs, node.name)
       THEN [nodes  |-> ns,
             log    |-> {},
             raised |-> [exc |-> "ValueError", path |-> node.dir_path]]
       ELSE LET removed == [ns EXCEPT ![pk].dirs = ListRemove(@, node.name)]
            IN [nodes  |-> [removed EXCEPT
                               ![k].prefix = transform_prefix(S, removed[pk])],
                log    |-> {},
                raised |-> NoException]

\* The iteration for the node at index k of ns: the nodes afterwards, the
\* log records added, and the exception raised (if any).
PrefixNode(S, ns, tp, k) ==
    LET node == ns[k]
        pk == Lookup(ns, Parent(node.dir_path))
    IN IF pk = 0
       THEN IF node.dir_path = tp
            THEN [nodes |-> ns, log |-> {}, raised |-> NoException]
            ELSE [nodes  |-> ns,
                  log    |-> {<<"ERROR", node.dir_path>>},
                  raised |-> [exc |-> "ValueError", path |-> node.dir_path]]
       ELSE LET removed == [ns EXCEPT ![pk].dirs = ListRemove(@, node.name)]
            IN [nodes  |-> [removed EXCEPT
                               ![k].prefix = transform_prefix(S, removed[pk])],
                log    |-> IF Has(ns[pk].dirs, node.name) THEN {}
                           ELSE {<<"WARNING", node.dir_path>>},
                raised |-> NoException]

StartStr ==
    /\ pc' = "str"
    /\ i' = 1
    /\ stack' = << >>
    /\ output_strings' = << >>

PrefixStep ==
    /\ pc = "prefix"
    /\ i <= Len(nodes)
    /\ LET r == PrefixNode(Symbol, nodes, top, i)
       IN /\ nodes' = r.nodes
          /\ log' = log \cup r.log
          /\ raised' = r.raised
          /\ IF r.raised # NoException
             THEN /\ pc' = "raised"
                  /\ UNCHANGED <<i, stack, output_strings>>
             ELSE IF i = Len(nodes)
             THEN StartStr
             ELSE /\ i' = i + 1
                  /\ UNCHANGED <<pc, stack, output_strings>>
    /\ UNCHANGED <<args, config, top, filters, fs, walk, tree_no, results>>

(***************************************************************************)
(* Tree.__str__.                                                           *)
(***************************************************************************)
\* The iteration without the test "if node.files": every directory is
\* pushed.
StrNodePushAlways(S, ns, stk, out, k) ==
    LET f == FlushDeeper(S, ns, stk, out, ns[k].depth)
    IN IF f.exit THEN f
       ELSE [exit  |-> FALSE,
             stack |-> Append(f.stack, k),
             out   |-> Append(f.out, DirLine(S, ns[k])),
             at    |-> 0]

\* One iteration of "for node in self.nodes.values()" for the node at
\* index k: the stack and the lines afterwards, or exit.
StrNode(S, ns, stk, out, k) ==
    LET f == FlushDeeper(S, ns, stk, out, ns[k].depth)
    IN IF f.exit THEN f
       ELSE [exit  |-> FALSE,
             stack |-> IF ns[k].files # << >> THEN Append(f.stack, k)
                       ELSE f.stack,
             out   |-> Append(f.out, DirLine(S, ns[k])),
             at    |-> 0]

StrStep ==
    /\ pc = "str"
    /\ i <= Len(nodes)
    /\ LET r == StrNode(Symbol, nodes, stack, output_strings, i)
       IN /\ stack' = r.stack
          /\ output_strings' = r.out
          /\ pc' = IF r.exit THEN "exit" ELSE "str"
          /\ i' = IF r.exit THEN i ELSE i + 1
          /\ log' = IF r.exit
                    THEN log \cup {<<"CRITICAL", nodes[r.at].dir_path>>}
                    ELSE log
    /\ UNCHANGED <<args, config, top, filters, fs, walk, nodes, tree_no,
                   results, raised>>

\* The end of __str__: the last flush and the join.  main calls str(nodes)
\* twice on its Tree (print, then fp.write); the second Tree is converted
\* once.
StrReturn ==
    /\ pc = "str"
    /\ i > Len(nodes)
    /\ LET r == FlushAll(Symbol, nodes, stack, output_strings)
       IN IF r.exit
          THEN /\ pc' = "exit"
               /\ stack' = r.stack
               /\ output_strings' = r.out
               /\ log' = log \cup {<<"CRITICAL", nodes[r.at].dir_path>>}
               /\ UNCHANGED <<i, results>>
          ELSE /\ results' = Append(results,
                                    [text |-> Join(r.out), lines |-> r.out])
               /\ log' = log
               /\ IF Len(results) = 0
                  THEN StartStr
                  ELSE /\ pc' = IF tree_no = 1 THEN "main_done" ELSE "done"
                       /\ stack' = r.stack
                       /\ output_strings' = r.out
                       /\ UNCHANGED i
    /\ UNCHANGED <<args, config, top, filters, fs, walk, nodes, tree_no,
                   raised>>

\* A second Tree(top, filters) over the same directory contents.
NewTree ==
    /\ pc = "main_done"
    /\ tree_no = 1
    /\ tree_no' = 2
    /\ nodes' = << >>
    /\ walk' = <<top>>
    /\ pc' = "populate"
    /\ UNCHANGED <<args, config, top, filters, fs, i, stack, output_strings,
                   results, log, raised>>

Next ==
    \/ ConfigFromArgs
    \/ PopulateStep
    \/ WalkError
    \/ PrefixStep
    \/ StrStep
    \/ StrReturn
    \/ NewTree

Spec == Init /\ [][Next]_vars

\* Runs given -L.
SpecDepth == InitWith(ArgsDepth) /\ [][Next]_vars

\* Runs given filter options.
SpecFilter == InitWith(ArgsFilter) /\ [][Next]_vars

(***************************************************************************)
(* Use as a library: Tree(top, Filters(exclude_dirs=E, exclude_files=E))   *)
(* with the Filters class of tree_gen.py or of filters.py, hidden names    *)
(* not shown (the default of both).                                        *)
(***************************************************************************)
\* The exclude patterns given to the constructor: None, 'b', [], ['b'],
\* ['b', 'c'].
ExcludeInputs ==
    {PNone, PStr(<<98>>), PList(<< >>), PList(<<<<98>>>>),
     PList(<<<<98>>, <<99>>>>)}

ArgsLib == [cls : {"tree_gen", "filters"}, exclude : ExcludeInputs, root_dir : {<<2>>}]

InitLib ==
    /\ pc = "lib"
    /\ args \in ArgsLib
    /\ config = [max_depth |-> -1, depth |-> 0]
    /\ top = << >>
    /\ filters = Filters(TRUE, TRUE, PNone, PNone, PNone, PNone)
    /\ fs = << >>
    /\ walk = << >>
    /\ nodes = << >>
    /\ tree_no = 1
    /\ i = 1
    /\ stack = << >>
    /\ output_strings = << >>
    /\ results = << >>
    /\ log = {}
    /\ raised = NoException

LibMain ==
    /\ pc = "lib"
    /\ filters' =
          IF args.cls = "tree_gen"
          THEN Filters(TRUE, TRUE, PNone, PNone, args.exclude, args.exclude)
          ELSE filters_Filters(FALSE, FALSE, PNone, args.exclude,
                               PNone, args.exclude)
    /\ top' = args.root_dir
    /\ walk' = <<args.root_dir>>
    /\ pc' = "populate"
    /\ UNCHANGED <<args, config, fs, nodes, tree_no, i, stack,
                   output_strings, results, log, raised>>

NextLib ==
    \/ LibMain
    \/ PopulateStep
    \/ WalkError
    \/ PrefixStep
    \/ StrStep
    \/ StrReturn
    \/ NewTree

SpecLib == InitLib /\ [][NextLib]_vars

(***************************************************************************)
(* Corrupted record collections.  Tree.nodes and the Node objects are      *)
(* public and mutable; the two inconsistencies the code guards against do  *)
(* not arise from populate, so they are put in from outside: a record with *)
(* children disappears before the prefix pass, or the file list of a       *)
(* directory pending on the stack of __str__ is emptied.                   *)
(***************************************************************************)
LoseRecord ==
    /\ pc = "prefix"
    /\ i = 1
    /\ tree_no = 1
    /\ \E k \in 2 .. Len(nodes) :
          /\ \E m \in 1 .. Len(nodes) :
                m # k /\ Parent(nodes[m].dir_path) = nodes[k].dir_path
          /\ nodes' = SubSeq(nodes, 1, k - 1) \o SubSeq(nodes, k + 1, Len(nodes))
    /\ UNCHANGED <<pc, args, config, top, filters, fs, walk, tree_no, i,
                   stack, output_strings, results, log, raised>>

EmptyFiles ==
    /\ pc = "str"
    /\ tree_no = 1
    /\ results = << >>
    /\ \A t \in 1 .. Len(stack) : nodes[stack[t]].files # << >>
    /\ \E t \in 1 .. Len(stack) :
          nodes' = [nodes EXCEPT ![stack[t]].files = << >>]
    /\ UNCHANGED <<pc, args, config, top, filters, fs, walk, tree_no, i,
                   stack, output_strings, results, log, raised>>

NextFault ==
    \/ Next
    \/ LoseRecord
    \/ EmptyFiles

SpecFault == Init /\ [][NextFault]_vars

\* Node.dirs is a mutable list: the name of a child record (the first or the
\* last of them) is taken out of its parent's dirs before the prefix pass
\* reaches the child.
DropDirName ==
    /\ pc = "prefix"
    /\ i = 1
    /\ tree_no = 1
    /\ \A m \in 2 .. Len(nodes) :
          Has(nodes[Lookup(nodes, Parent(nodes[m].dir_path))].dirs,
              nodes[m].name)
    /\ \E m \in {2, Len(nodes)} \cap (2 .. Len(nodes)) :
          nodes' = [nodes EXCEPT
                       ![Lookup(nodes, Parent(nodes[m].dir_path))].dirs =
                           ListRemove(@, nodes[m].name)]
    /\ UNCHANGED <<pc, args, config, top, filters, fs, walk, tree_no, i,
                   stack, output_strings, results, log, raised>>

NextSoft ==
    \/ Next
    \/ DropDirName

SpecSoft == Init /\ [][NextSoft]_vars

(***************************************************************************)
(* The whole passes as functions of the record collection, for comparing   *)
(* symbol sets.                                                            *)
(***************************************************************************)
\* Tree.prefix_nodes from index k on (the records; << >> if it raises).
RECURSIVE PrefixFrom(_, _, _, _)
PrefixFrom(S, ns, tp, k) ==
    IF k > Len(ns) THEN ns
    ELSE LET r == PrefixNode(S, ns, tp, k)
         IN IF r.raised # NoException THEN << >>
            ELSE PrefixFrom(S, r.nodes, tp, k + 1)

\* Tree.__str__ from index k on (the lines; << >> if it exits).
RECURSIVE StrFrom(_, _, _, _, _)
StrFrom(S, ns, stk, out, k) ==
    IF k > Len(ns)
    THEN LET r == FlushAll(S, ns, stk, out)
         IN IF r.exit THEN << >> ELSE r.out
    ELSE LET r == StrNode(S, ns, stk, out, k)
         IN IF r.exit THEN << >> ELSE StrFrom(S, ns, r.stack, r.out, k + 1)

\* The lines of a Tree over the walked records ns, drawn with symbol set S.
Render(S, ns, tp) == StrFrom(S, PrefixFrom(S, ns, tp, 1), << >>, << >>, 1)

(***************************************************************************)
(* Reading the output back.                                                *)
(***************************************************************************)
\* The records are complete and a text has been returned for them.
Rendered == pc \in {"main_done", "done"}

\* The lines of the last text returned.
Lines == results[Len(results)].lines

\* What follows the connectors on a line: "name/" or the file name.
LineName(l) ==
    IF l.file = 0 THEN NameStr(PathName(l.owner)) \o Symbol.DIR
    ELSE NameStr(l.file)

\* The connectors of a line: its text without the name.
Indent(l) == DropLast(l.text, Len(LineName(l)))

NSeg(pre) == Len(pre) \div SYMBOL_LEN

Seg(pre, j) == SubSeq(pre, SYMBOL_LEN * (j - 1) + 1, SYMBOL_LEN * j)

\* The connector of the line itself: the last segment.
Connector(l) == Seg(Indent(l), NSeg(Indent(l)))

IsPrefixPath(a, p) == Len(a) <= Len(p) /\ SubSeq(p, 1, Len(a)) = a

\* p lies strictly below D.
Below(D, p) == IsPrefixPath(D, p) /\ p # D

\* Line l is a child line of directory D: the line of a subdirectory of D
\* or the line of a file of D.
ChildLineOf(D, l) ==
    IF l.file = 0 THEN Below(D, l.owner) /\ Len(l.owner) = Len(D) + 1
    ELSE l.owner = D

\* The index of the directory line of path p in ls (0 if none).
DirLineOf(ls, p) ==
    IF \E j \in 1 .. Len(ls) : ls[j].file = 0 /\ ls[j].owner = p
    THEN CHOOSE j \in 1 .. Len(ls) : ls[j].file = 0 /\ ls[j].owner = p
    ELSE 0

StrLeq(a, b) == a = b \/ StrLess(a, b)

\* Every directory the walk met could be listed.
AllListed == \A p \in DOMAIN fs : fs[p].readable

(***************************************************************************)
(* C1  In every rendered tree, every directory with at least one child     *)
(* line has exactly one child line with the FINAL connector, all its other *)
(* child lines have BRANCH, and the FINAL line is the line of its last     *)
(* file if it has files, else the line of its greatest child directory.    *)
(***************************************************************************)
OneFinal(ls, node) ==
    LET D == node.dir_path
        kids == {j \in 1 .. Len(ls) : ChildLineOf(D, ls[j])}
        IsLast(j) ==
            IF node.files # << >>
            THEN ls[j].file = node.files[Len(node.files)]
            ELSE /\ ls[j].file = 0
                 /\ \A m \in kids :
                       StrLeq(NameStr(PathName(ls[m].owner)),
                              NameStr(PathName(ls[j].owner)))
    IN kids # {} =>
          /\ \E j \in kids : IsLast(j)
          /\ \A j \in kids :
                Connector(ls[j]) = IF IsLast(j) THEN Symbol.FINAL
                                   ELSE Symbol.BRANCH

C1_OneFinalPerDirectory ==
    Rendered => \A k \in 1 .. Len(nodes) : OneFinal(Lines, nodes[k])

\* The same, for the trees all of whose listed directories could be walked.
C1_OneFinalWhenAllListed ==
    (Rendered /\ AllListed) => \A k \in 1 .. Len(nodes) : OneFinal(Lines, nodes[k])

(***************************************************************************)
(* C2  On every line, the segment at the depth of each non-root ancestor   *)
(* A (for a file line, its directory included) is CONTINUE if A's own      *)
(* connector is BRANCH and INDENT if it is FINAL, and no segment but the   *)
(* last is BRANCH or FINAL.                                                *)
(***************************************************************************)
PathPrefixes(p) == {SubSeq(p, 1, n) : n \in 0 .. Len(p)}

AncestorsOf(l) ==
    {A \in PathPrefixes(l.owner) :
        Below(top, A) /\ (l.file # 0 \/ A # l.owner)}

AncestorSegments(ls, l) ==
    LET pre == Indent(l)
    IN /\ \A q \in 1 .. NSeg(pre) - 1 :
             Seg(pre, q) \notin {Symbol.BRANCH, Symbol.FINAL}
       /\ \A A \in AncestorsOf(l) :
             LET a == DirLineOf(ls, A)
                 d == Len(A) - Len(top)
             IN /\ a # 0
                /\ Connector(ls[a]) = Symbol.BRANCH
                      => Seg(pre, d) = Symbol.CONTINUE
                /\ Connector(ls[a]) = Symbol.FINAL
                      => Seg(pre, d) = Symbol.INDENT

C2_AncestorSegments ==
    Rendered => \A j \in 1 .. Len(Lines) : AncestorSegments(Lines, Lines[j])

\* The same, for a root directory other than "/".
C2_AncestorSegmentsBelowRoot ==
    (Rendered /\ top # << >>)
        => \A j \in 1 .. Len(Lines) : AncestorSegments(Lines, Lines[j])

(***************************************************************************)
(* C3  In the lines of str(tree), the file lines of a directory D are one  *)
(* contiguous block in the order of D.files, which is ascending; the block *)
(* comes after D's own line and after every line of D's subtree, and no    *)
(* line of a directory outside D's subtree lies between D's line and the   *)
(* end of the block.                                                       *)
(***************************************************************************)
MinOf(set) == CHOOSE x \in set : \A y \in set : x <= y

MaxOf(set) == CHOOSE x \in set : \A y \in set : y <= x

FileBlock(ls, node) ==
    LET D == node.dir_path
        F == {j \in 1 .. Len(ls) : ls[j].file # 0 /\ ls[j].owner = D}
        own == DirLineOf(ls, D)
    IN node.files # << >> =>
          /\ F # {}
          /\ own # 0
          /\ LET a == MinOf(F)
                 b == MaxOf(F)
             IN /\ b - a + 1 = Len(node.files)
                /\ \A m \in 1 .. Len(node.files) :
                      /\ ls[a + m - 1].owner = D
                      /\ ls[a + m - 1].file = node.files[m]
                /\ \A m \in 1 .. Len(node.files) - 1 :
                      StrLess(NameStr(node.files[m]), NameStr(node.files[m + 1]))
                /\ own < a
                /\ \A j \in 1 .. Len(ls) : Below(D, ls[j].owner) => j < a
                /\ \A j \in own .. b : IsPrefixPath(D, ls[j].owner)

C3_FileBlockAfterSubtree ==
    Rendered => \A k \in 1 .. Len(nodes) : FileBlock(Lines, nodes[k])

\* A directory with a file, holding a subdirectory with a file, and followed
\* by a sibling: two pending directories are flushed before the sibling.
C3_Witness ==
    /\ Rendered
    /\ \E k, m, n \in 1 .. Len(nodes) :
          /\ nodes[k].files # << >>
          /\ nodes[m].files # << >>
          /\ Below(nodes[k].dir_path, nodes[m].dir_path)
          /\ nodes[n].depth = nodes[k].depth
          /\ n > m

(***************************************************************************)
(* C4  The text has exactly one directory line per record and exactly one  *)
(* file line per name of each record's files, and no other line.           *)
(***************************************************************************)
RECURSIVE SumFiles(_)
SumFiles(ns) ==
    IF ns = << >> THEN 0 ELSE Len(ns[1].files) + SumFiles(Tail(ns))

C4_OneLinePerEntry ==
    Rendered =>
        /\ \A k \in 1 .. Len(nodes) :
              /\ Cardinality({j \in 1 .. Len(Lines) :
                     Lines[j].file = 0
                     /\ Lines[j].owner = nodes[k].dir_path}) = 1
              /\ \A m \in 1 .. Len(nodes[k].files) :
                    Cardinality({j \in 1 .. Len(Lines) :
                        /\ Lines[j].file = nodes[k].files[m]
                        /\ Lines[j].owner = nodes[k].dir_path}) = 1
        /\ Len(Lines) = Len(nodes) + SumFiles(nodes)

\* A rendered tree of three directories, two of them with files.
C4_Witness ==
    /\ Rendered
    /\ Len(nodes) >= 3
    /\ \E k, m \in 1 .. Len(nodes) :
          k # m /\ Len(nodes[k].files) = 2 /\ nodes[m].files # << >>

(***************************************************************************)
(* C5  After the prefix pass the root record's prefix is empty and every   *)
(* other record's prefix is not, whatever the root directory.              *)
(***************************************************************************)
C5_OnlyRootPrefixEmpty ==
    pc \in {"str", "main_done", "done"} =>
        \A k \in 1 .. Len(nodes) :
            (nodes[k].dir_path = top) <=> (nodes[k].prefix = << >>)

(***************************************************************************)
(* C6  Drawn with the ASCII symbols, a record collection gives as many     *)
(* lines as with the Unicode symbols, and at every segment of every line   *)
(* the connector of the same kind.                                         *)
(***************************************************************************)
Kinds == {"INDENT", "CONTINUE", "BRANCH", "FINAL"}

SameStructure(ul, al) ==
    /\ Len(ul) = Len(al)
    /\ \A j \in 1 .. Len(ul) :
          /\ NSeg(Indent(ul[j])) = NSeg(Indent(al[j]))
          /\ \A q \in 1 .. NSeg(Indent(ul[j])) :
                \E K \in Kinds :
                    /\ Seg(Indent(ul[j]), q) = UnicodeSymbols[K]
                    /\ Seg(Indent(al[j]), q) = AsciiSymbols[K]

C6_SymbolSetsSameStructure ==
    (pc = "prefix" /\ i = 1) =>
        SameStructure(Render(symbols(FALSE), nodes, top),
                      Render(symbols(TRUE), nodes, top))

(***************************************************************************)
(* C7  Given -L n, no record is deeper than n.                             *)
(***************************************************************************)
C7_NoRecordBelowMaxDepth ==
    args.max_depth # 0 =>
        \A k \in 1 .. Len(nodes) : nodes[k].depth <= args.max_depth

(***************************************************************************)
(* C8  Every text returned for the same directory contents is the same     *)
(* (str twice on one Tree, and str on a second Tree), and no step of       *)
(* __str__ changes a record.                                               *)
(***************************************************************************)
C8_SameTextEveryTime ==
    /\ [](\A a, b \in 1 .. Len(results) : results[a].text = results[b].text)
    /\ [][pc = "str" => nodes' = nodes]_vars

\* The second Tree of a directory with two subdirectories and two files has
\* been converted.
C8_Witness ==
    /\ pc = "done"
    /\ Len(results) = 3
    /\ Len(nodes[1].dirs) + Len(nodes) >= 3
    /\ Len(nodes) >= 3
    /\ Len(nodes[1].files) = 2

(***************************************************************************)
(* C9  The prefix of every directory line is exactly depth connectors of   *)
(* SYMBOL_LEN characters, depth being the record's distance from the root. *)
(***************************************************************************)
C9_PrefixLengthIsDepth ==
    Rendered =>
        \A k \in 1 .. Len(nodes) :
            LET j == DirLineOf(Lines, nodes[k].dir_path)
                pre == Indent(Lines[j])
            IN /\ j # 0
               /\ nodes[k].depth = Len(nodes[k].dir_path) - Len(top)
               /\ Len(pre) = SYMBOL_LEN * nodes[k].depth
               /\ \A q \in 1 .. NSeg(pre) :
                     Seg(pre, q) \in {Symbol.INDENT, Symbol.CONTINUE,
                                      Symbol.BRANCH, Symbol.FINAL}

\* The same, for a root directory other than "/".
C9_PrefixLengthIsDepthBelowRoot ==
    (Rendered /\ top # << >>) =>
        \A k \in 1 .. Len(nodes) :
            Len(Indent(Lines[DirLineOf(Lines, nodes[k].dir_path)]))
                = SYMBOL_LEN * nodes[k].depth

(***************************************************************************)
(* C10  A record other than the root whose parent path is not among the    *)
(* records makes the prefix pass raise ValueError naming that record's     *)
(* path, before any line exists; a flush that meets a pending directory    *)
(* with an empty file list ends the run (sys.exit) without returning a     *)
(* text; after either, the program takes no further step.                  *)
(***************************************************************************)
Orphan(ns, k) ==
    ns[k].dir_path # top /\ Lookup(ns, Parent(ns[k].dir_path)) = 0

\* The next step of __str__ pops a directory whose file list is empty.
FlushMeetsEmpty ==
    \E t \in 1 .. Len(stack) :
        /\ nodes[stack[t]].files = << >>
        /\ i <= Len(nodes) =>
              \A u \in t .. Len(stack) :
                  nodes[stack[u]].depth >= nodes[i].depth

C10_FatalInconsistencyAborts ==
    /\ [][(pc = "prefix" /\ i > 1 /\ Orphan(nodes, i))
            => /\ pc' = "raised"
               /\ raised' = [exc |-> "ValueError", path |-> nodes[i].dir_path]
               /\ <<"ERROR", nodes[i].dir_path>> \in log'
               /\ results' = << >>
               /\ output_strings' = << >>]_vars
    /\ [][(pc = "str" /\ FlushMeetsEmpty)
            => /\ pc' = "exit"
               /\ results' = results]_vars
    /\ [][pc \notin {"raised", "exit"}]_vars

\* The prefix pass has raised on a record below a lost directory.
C10_Witness ==
    /\ pc = "raised"
    /\ raised.exc = "ValueError"
    /\ Len(raised.path) >= 2
    /\ results = << >>

\* __str__ has exited on an emptied file list, with lines already made.
C10_WitnessExit ==
    /\ pc = "exit"
    /\ output_strings # << >>
    /\ results = << >>

(***************************************************************************)
(* C11  A step of the prefix pass on a record whose name is not in its     *)
(* parent's dirs logs a warning for it, leaves the parent's dirs as they   *)
(* are, gives the record its prefix and moves on to the next record (or to *)
(* __str__ after the last); the run never raises or exits, and the text    *)
(* has one line per record and per file.  (A step of the pass is a step    *)
(* that changes pc or i.)                                                  *)
(***************************************************************************)
\* The record the prefix pass is at has a parent record that lacks its name.
NameMissing ==
    /\ pc = "prefix"
    /\ i <= Len(nodes)
    /\ Lookup(nodes, Parent(nodes[i].dir_path)) # 0
    /\ ~ Has(nodes[Lookup(nodes, Parent(nodes[i].dir_path))].dirs,
             nodes[i].name)

C11_MissingNameIsRecovered ==
    /\ [][(NameMissing /\ <<pc, i>>' # <<pc, i>>) =>
            LET pk == Lookup(nodes, Parent(nodes[i].dir_path))
            IN /\ <<"WARNING", nodes[i].dir_path>> \in log'
               /\ nodes'[pk].dirs = nodes[pk].dirs
               /\ Len(nodes'[i].prefix) = Len(nodes[pk].prefix) + SYMBOL_LEN
               /\ Seg(nodes'[i].prefix, NSeg(nodes'[i].prefix))
                     \in {Symbol.BRANCH, Symbol.FINAL}
               /\ raised' = NoException
               /\ IF i < Len(nodes)
                  THEN pc' = "prefix" /\ i' = i + 1
                  ELSE pc' = "str" /\ i' = 1]_vars
    /\ [](pc \notin {"raised", "exit"})
    /\ [](Rendered =>
            /\ Len(Lines) = Len(nodes) + SumFiles(nodes)
            /\ \A k \in 1 .. Len(nodes) :
                  DirLineOf(Lines, nodes[k].dir_path) # 0)

\* A text has been returned for a tree in which a record below the root's
\* children was processed with its name missing from its parent's dirs.
C11_Witness ==
    /\ Rendered
    /\ \E k \in 1 .. Len(nodes) :
          /\ nodes[k].depth >= 2
          /\ <<"WARNING", nodes[k].dir_path>> \in log
    /\ Len(Lines) >= 4

(***************************************************************************)
(* C12  For every subdirectory the walk could not list: a log record names *)
(* it, the run does not raise or exit, every sibling directory that could  *)
(* be listed and every file of its parent has its line, and the last child *)
(* line of its parent has the FINAL connector.                             *)
(***************************************************************************)
\* The directories the walk met and could not list.
Skipped == {p \in DOMAIN fs : ~ fs[p].readable}

Reported(p) == \E r \in log : r[2] = p

SiblingsRendered(ls, p) ==
    LET D == Parent(p)
    IN /\ DirLineOf(ls, D) # 0
       /\ \A q \in DOMAIN fs :
             (q # D /\ Parent(q) = D /\ fs[q].readable)
                 => DirLineOf(ls, q) # 0
       /\ \A f \in fs[D].files :
             \E j \in 1 .. Len(ls) : ls[j].owner = D /\ ls[j].file = f

LastChildFinal(ls, p) ==
    LET kids == {j \in 1 .. Len(ls) : ChildLineOf(Parent(p), ls[j])}
    IN kids # {} => Connector(ls[MaxOf(kids)]) = Symbol.FINAL

C12_SkippedSubdirectoryTolerated ==
    /\ pc \notin {"raised", "exit"}
    /\ Rendered =>
          \A p \in Skipped :
              /\ Reported(p)
              /\ SiblingsRendered(Lines, p)
              /\ LastChildFinal(Lines, p)

(***************************************************************************)
(* C13  The records come in pre-order: a directory before everything below *)
(* it, and of two records neither of which is below the other, the one     *)
(* whose path has the smaller name where the paths first differ comes      *)
(* first.  Before the prefix pass touches them, the dirs and the files of  *)
(* a record are ascending and hold exactly the listed names that match an  *)
(* include pattern (if there is any) and no exclude pattern.  Every name   *)
(* on the path of a record below the root passes the directory filter and  *)
(* is in the dirs of its parent's record, and after the walk every name in *)
(* a record's dirs has its record unless it could not be listed.           *)
(***************************************************************************)
Passes(n, inc, exc) ==
    /\ inc = << >> \/ \E k \in 1 .. Len(inc) : FnMatch(inc[k], NameStr(n))
    /\ ~ \E k \in 1 .. Len(exc) : FnMatch(exc[k], NameStr(n))

Ascending(l) ==
    \A k \in 1 .. Len(l) - 1 : StrLess(NameStr(l[k]), NameStr(l[k + 1]))

\* The first index at which the paths p and q differ.
FirstDiff(p, q) ==
    MinOf({j \in 1 .. Len(p) : j > Len(q) \/ p[j] # q[j]})

PreOrder(ns) ==
    \A k, m \in 1 .. Len(ns) :
        LET p == ns[k].dir_path
            q == ns[m].dir_path
        IN k < m =>
              /\ ~ IsPrefixPath(q, p)
              /\ ~ IsPrefixPath(p, q) =>
                    StrLess(NameStr(p[FirstDiff(p, q)]),
                            NameStr(q[FirstDiff(p, q)]))

Range(l) == {l[k] : k \in 1 .. Len(l)}

C13_PreOrderAndFiltered ==
    /\ PreOrder(nodes)
    /\ \A k \in 1 .. Len(nodes) :
          LET p == nodes[k].dir_path
          IN /\ Ascending(nodes[k].files)
             /\ Range(nodes[k].files) =
                   {n \in fs[p].files :
                       Passes(n, filters._include_files, filters._exclude_files)}
             /\ p # top =>
                   /\ \A j \in Len(top) + 1 .. Len(p) :
                         Passes(p[j], filters._include_dirs,
                                filters._exclude_dirs)
                   /\ Lookup(nodes, Parent(p)) # 0
    /\ (pc = "populate" \/ (pc = "prefix" /\ i = 1)) =>
          \A k \in 1 .. Len(nodes) :
              LET p == nodes[k].dir_path
              IN /\ Ascending(nodes[k].dirs)
                 /\ Range(nodes[k].dirs) =
                       {n \in fs[p].dirs :
                           Passes(n, filters._include_dirs,
                                  filters._exclude_dirs)}
                 /\ p # top =>
                       Has(nodes[Lookup(nodes, Parent(p))].dirs, nodes[k].name)
                 /\ pc = "prefix" =>
                       \A n \in Range(nodes[k].dirs) :
                           \/ Lookup(nodes, p \o <<n>>) # 0
                           \/ p \o <<n>> \in Skipped

\* The walk is over; a record lists a directory that was kept and one that
\* was filtered out, and a file that was filtered out, and the kept
\* directory has a record with a subdirectory of its own.
C13_Witness ==
    /\ pc = "prefix"
    /\ i = 1
    /\ \E k, m \in 1 .. Len(nodes) :
          /\ Cardinality(fs[nodes[k].dir_path].dirs) > Len(nodes[k].dirs)
          /\ Cardinality(fs[nodes[k].dir_path].files) > Len(nodes[k].files)
          /\ Parent(nodes[m].dir_path) = nodes[k].dir_path
          /\ m # k
          /\ nodes[m].dirs # << >>

(***************************************************************************)
(* C14  A Filters object constructed with the default for hidden names and *)
(* the exclude patterns E (None, a string or a list) rejects a name, as a  *)
(* file and as a directory, exactly when the name matches a pattern of E   *)
(* or the hidden pattern '.*'.                                             *)
(***************************************************************************)
RejectedFile(flt, n) ==
    do_filter(<<n>>, _combine_patterns(flt._include_files),
              _combine_patterns(flt._exclude_files)) = << >>

RejectedDir(flt, n) ==
    do_filter(<<n>>, _combine_patterns(flt._include_dirs),
              _combine_patterns(flt._exclude_dirs)) = << >>

\* n matches a pattern of the constructor's input E or '.*'.
ToBeRejected(E, n) ==
    \/ FnMatch(unix_hidden, NameStr(n))
    \/ \E k \in 1 .. Len(E.val) : FnMatch(E.val[k], NameStr(n))

C14_HiddenAndUserExcludes ==
    pc # "lib" =>
        \A n \in Names :
            /\ RejectedFile(filters, n) <=> ToBeRejected(args.exclude, n)
            /\ RejectedDir(filters, n) <=> ToBeRejected(args.exclude, n)

\* The same, for the Filters class of tree_gen.py, and for that of
\* filters.py when E is not a list.
C14_ExceptListsInFiltersPy ==
    (pc # "lib" /\ (args.cls = "tree_gen" \/ args.exclude.kind # "list")) =>
        \A n \in Names :
            /\ RejectedFile(filters, n) <=> ToBeRejected(args.exclude, n)
            /\ RejectedDir(filters, n) <=> ToBeRejected(args.exclude, n)

(***************************************************************************)
(* C15  After the prefix pass, the prefix of every record below the root   *)
(* is, before its own connector, its parent's prefix with the trailing     *)
(* segment rewritten (BRANCH to CONTINUE, FINAL to INDENT) and then the    *)
(* leading segment rewritten to BRANCH if it is CONTINUE, no other segment *)
(* being changed.                                                          *)
(***************************************************************************)
PrefixPassDone == pc \in {"str", "main_done", "done"}

\* pre with its segment q replaced by seg.
WithSeg(pre, q, seg) ==
    SubSeq(pre, 1, SYMBOL_LEN * (q - 1)) \o seg
        \o SubSeq(pre, SYMBOL_LEN * q + 1, Len(pre))

TrailingRewritten(pre) ==
    IF pre = << >> THEN pre
    ELSE IF Seg(pre, NSeg(pre)) = Symbol.BRANCH
         THEN WithSeg(pre, NSeg(pre), Symbol.CONTINUE)
    ELSE IF Seg(pre, NSeg(pre)) = Symbol.FINAL
         THEN WithSeg(pre, NSeg(pre), Symbol.INDENT)
    ELSE pre

LeadingRewritten(pre) ==
    IF pre # << >> /\ Seg(pre, 1) = Symbol.CONTINUE
    THEN WithSeg(pre, 1, Symbol.BRANCH)
    ELSE pre

\* The records below the root, each with the index of its parent's record.
BelowTop(ns) ==
    {k \in 1 .. Len(ns) :
        ns[k].dir_path # top /\ Lookup(ns, Parent(ns[k].dir_path)) # 0}

C15_LeadingContinueToBranch ==
    PrefixPassDone =>
        \A k \in BelowTop(nodes) :
            LET parent == nodes[Lookup(nodes, Parent(nodes[k].dir_path))]
            IN DropLast(nodes[k].prefix, SYMBOL_LEN)
                  = LeadingRewritten(TrailingRewritten(parent.prefix))

(***************************************************************************)
(* C15, amended  After the prefix pass, the prefix of every record below   *)
(* the root is, before its own connector, its parent's prefix with only    *)
(* the trailing segment rewritten (BRANCH to CONTINUE, FINAL to INDENT):   *)
(* that string never starts with BRANCH, so the leading rewrite (of a      *)
(* leading BRANCH, to CONTINUE) changes nothing and a leading CONTINUE     *)
(* stays CONTINUE.                                                         *)
(***************************************************************************)
C15_LeadingSegmentKept ==
    PrefixPassDone =>
        \A k \in BelowTop(nodes) :
            LET parent == nodes[Lookup(nodes, Parent(nodes[k].dir_path))]
                t == TrailingRewritten(parent.prefix)
            IN /\ DropLast(nodes[k].prefix, SYMBOL_LEN) = t
               /\ t # << >> => Seg(t, 1) # Symbol.BRANCH

\* A record two levels below the root whose prefix starts with CONTINUE,
\* and one whose prefix starts with INDENT.
C15_Witness ==
    /\ PrefixPassDone
    /\ \E k, m \in BelowTop(nodes) :
          /\ NSeg(nodes[k].prefix) >= 2
          /\ Seg(nodes[k].prefix, 1) = Symbol.CONTINUE
          /\ NSeg(nodes[m].prefix) >= 2
          /\ Seg(nodes[m].prefix, 1) = Symbol.INDENT

(***************************************************************************)
(* C16  While __str__ is at record i (records 1..i-1 have their lines),    *)
(* the stack holds exactly the records k < i with a non-empty file list    *)
(* whose directory is that of record i-1 or above it, deeper towards the   *)
(* top of the stack; these are the records with files whose file lines are *)
(* not yet among the lines.  A step adds no record to the stack but the    *)
(* one it emits, and a record that left the stack is not on it again in    *)
(* the same pass; the stack is empty when a text has been returned.        *)
(***************************************************************************)
\* The record whose line was emitted last is k's own or lies below it.
SubtreeOpen(k) ==
    i > 1 /\ k < i /\ IsPrefixPath(nodes[k].dir_path, nodes[i - 1].dir_path)

HasFileLines(out, k) ==
    \E j \in 1 .. Len(out) :
        out[j].file # 0 /\ out[j].owner = nodes[k].dir_path

C16_StackIsOpenDirectoriesWithFiles ==
    /\ [](pc = "str" =>
            /\ \A k \in 1 .. Len(nodes) :
                  Has(stack, k) <=> (SubtreeOpen(k) /\ nodes[k].files # << >>)
            /\ \A t \in 1 .. Len(stack) - 1 :
                  nodes[stack[t]].depth < nodes[stack[t + 1]].depth
            /\ \A k \in 1 .. i - 1 :
                  nodes[k].files # << >> =>
                      (Has(stack, k) <=> ~ HasFileLines(output_strings, k)))
    /\ [][(pc = "str" /\ pc' = "str" /\ i' # 1) =>
            \A k \in 1 .. Len(nodes) :
                /\ (Has(stack', k) /\ ~ Has(stack, k)) => (k = i /\ i' = i + 1)
                /\ (k < i /\ ~ Has(stack, k)) => ~ Has(stack', k)]_vars
    /\ [](Rendered => stack = << >>)

\* Two directories with files are pending, one inside the other, and the
\* next record is not inside either: both are about to be popped.
C16_Witness ==
    /\ pc = "str"
    /\ i <= Len(nodes)
    /\ Len(stack) >= 2
    /\ nodes[i].depth <= nodes[stack[Len(stack) - 1]].depth

(***************************************************************************)
(* C17  A step of the prefix pass on a record below the root takes exactly *)
(* that record's name out of its parent's dirs, which held it; a step on   *)
(* the root takes out nothing; no step changes the dirs of another record  *)
(* or the files of any record; when the pass is over the dirs of every     *)
(* record are empty.                                                       *)
(***************************************************************************)
\* From pc = "prefix", a step of the pass on record i.
WorklistStep ==
    LET pk == Lookup(nodes, Parent(nodes[i].dir_path))
    IN /\ Len(nodes') = Len(nodes)
       /\ \A k \in 1 .. Len(nodes) : nodes'[k].files = nodes[k].files
       /\ IF nodes[i].dir_path = top
          THEN \A k \in 1 .. Len(nodes) : nodes'[k].dirs = nodes[k].dirs
          ELSE /\ pk # 0
               /\ Has(nodes[pk].dirs, nodes[i].name)
               /\ Len(nodes'[pk].dirs) = Len(nodes[pk].dirs) - 1
               /\ Range(nodes'[pk].dirs)
                     = Range(nodes[pk].dirs) \ {nodes[i].name}
               /\ Ascending(nodes'[pk].dirs)
               /\ \A k \in 1 .. Len(nodes) :
                     k # pk => nodes'[k].dirs = nodes[k].dirs

C17_WorklistsShrinkToEmpty ==
    /\ [][(pc = "prefix" /\ <<pc, i>>' # <<pc, i>>) => WorklistStep]_vars
    /\ [](PrefixPassDone => \A k \in 1 .. Len(nodes) : nodes[k].dirs = << >>)

\* The same, for the trees all of whose listed directories could be walked.
C17_WhenAllListed ==
    /\ [][(pc = "prefix" /\ <<pc, i>>' # <<pc, i>>) => WorklistStep]_vars
    /\ []((PrefixPassDone /\ AllListed)
              => \A k \in 1 .. Len(nodes) : nodes[k].dirs = << >>)

====
